---- MODULE Spec2Model ----
(***************************************************************************)
(* Motion program execution and serial command protocol of the juice       *)
(* kiosk (src/zkbot_controller/serial_comm.py, models.py, config.py).      *)
(*                                                                         *)
(* Optional[T] values are sequences: None is <<>>, a present value v is    *)
(* <<v>>.  Coordinates, angles and feed rates are integral floats; a       *)
(* float is rendered the way Python's f-string renders it ("10.0").        *)
(* Times are in milliseconds.                                              *)
(***************************************************************************)
EXTENDS Integers, Sequences, FiniteSets, TLC

VARIABLES
    prog,       \* Program.steps of the program being run
    pc,         \* position of run_program
    i,          \* loop index of run_program (1-based, enumerate(start=1))
    do_cmd,     \* local do_cmd of run_program
    move_cmd,   \* local move_cmd of run_program
    ser,        \* the serial.Serial object: None before open_port returns
    reply,      \* value returned by the last send_command
    exc,        \* exception in flight inside the try block ("" = none)
    result,     \* what run_program delivered to its caller
    log,        \* history of port and timing events, oldest first
    files,      \* the program files on disk: path -> content
    heap,       \* the Step objects that exist, by reference (index)
    md,         \* make_drink: its position, its locals, the exception it let out
    tpc,        \* position of every thread that may run a program
    held,       \* the runners whose serial.Serial object is open
    page,       \* CustomerPage: order (cart), active_orders, is_running
    db,         \* KioskDB: the rows of the orders table, by id
    qt,         \* the active-queue thread of CustomerPage
    arg,        \* the enhanced Step that validate() is called on
    ret,        \* what validate() returned
    eprog,      \* an enhanced Program object
    now,        \* the clock datetime.now() reads
    call,       \* the last method called on eprog: arguments, state before, outcome
    mrt,        \* a models.Program, the document saved from it, the Program loaded back
    ert,        \* the same for an enhanced Program
    leg,        \* an old-format (bare array) file and what each loader makes of it
    qm,         \* QueueManager: queue, current_order, is_processing, is_paused
    odb,        \* Database: the status of every order, by id
    qw          \* the QueueManager worker thread, and the history of queue events

runVars == <<prog, pc, i, do_cmd, move_cmd, ser, reply, exc, result, log>>

drinkVars == <<files, heap, md>>

appVars == <<tpc, held>>

kioskVars == <<page, db, qt>>

valVars == <<arg, ret>>

progVars == <<eprog, now, call>>

rtVars == <<mrt, ert>>

dataVars == <<valVars, progVars, rtVars>>

legVars == <<leg>>

qmVars == <<qm, odb, qw>>

extraVars == <<legVars, qmVars>>

\* everything but the variables of run_program and make_drink
others == <<appVars, kioskVars, dataVars, extraVars>>

\* everything but the variables of run_program
notRun == <<drinkVars, others>>

vars == <<runVars, drinkVars, appVars, kioskVars, dataVars, extraVars>>

-----------------------------------------------------------------------------
(* Bounds of the model *)

MaxSteps == 3

-----------------------------------------------------------------------------
(* Optional values *)

None == <<>>

Some(v) == <<v>>

IsNone(o) == o = None

-----------------------------------------------------------------------------
(* config.py *)

DEFAULT_FEED == 20

DEFAULT_DELAY_MS == 500

\* time.sleep(0.5) in send_command
SETTLE_MS == 500

-----------------------------------------------------------------------------
(* models.py: Step *)

Cmds == {"G00", "G01", "G02"}

Coords == {None, Some(0), Some(10)}

Angles == {None, Some(0), Some(90)}

Step(cmd, x, y, z, f, delay, do0) ==
    [cmd |-> cmd, x |-> x, y |-> y, z |-> z, f |-> f, delay |-> delay, do0 |-> do0]

\* every Step the frame builders are exercised on
Steps ==
    { Step(c, x, y, z, DEFAULT_FEED, DEFAULT_DELAY_MS, a) :
        c \in Cmds, x \in Coords, y \in Coords, z \in Coords, a \in Angles }

\* delays of the steps that are run; time.sleep rejects a negative one
RunDelays == {-1000, 2000}

\* the Steps that programs are run with
RunSteps ==
    { Step("G01", xz[1], None, xz[2], DEFAULT_FEED, d, a) :
        xz \in {<<None, None>>, <<Some(0), Some(5)>>},
        d \in RunDelays,
        a \in {None, Some(0)} }

RECURSIVE SeqsUpTo(_, _)
SeqsUpTo(S, n) ==
    IF n = 0 THEN {<<>>}
    ELSE LET shorter == SeqsUpTo(S, n - 1)
         IN  shorter \cup { Append(p, s) : p \in {q \in shorter : Len(q) = n - 1}, s \in S }

Programs == SeqsUpTo(RunSteps, MaxSteps)

-----------------------------------------------------------------------------
(* Python string formatting *)

\* str() of an integral float, as an f-string renders it
FloatStr(v) == ToString(v) \o ".0"

\* sep.join(parts)
RECURSIVE Join(_, _)
Join(parts, sep) ==
    IF Len(parts) = 0 THEN ""
    ELSE IF Len(parts) = 1 THEN parts[1]
    ELSE parts[1] \o sep \o Join(Tail(parts), sep)

\* truth value of an Optional[str] in "if do_cmd:"
Truthy(o) == o /= None /\ o[1] /= ""

-----------------------------------------------------------------------------
(* serial_comm.py: the frame builders *)

PREAMBLE == "0x550xAA"

POSTAMBLE == "0xAA0x55"

\* mutant: "no XYZ" is tested by truth, so a move to 0 builds no frame
build_move_falsy(step) ==
    IF /\ (IsNone(step.x) \/ step.x[1] = 0)
       /\ (IsNone(step.y) \/ step.y[1] = 0)
       /\ (IsNone(step.z) \/ step.z[1] = 0)
    THEN None
    ELSE
        LET cmd   == IF step.cmd \in {"G00", "G01"} THEN step.cmd ELSE "G01"
            px    == IF step.x /= None THEN <<"X" \o FloatStr(step.x[1])>> ELSE <<>>
            py    == IF step.y /= None THEN <<"Y" \o FloatStr(step.y[1])>> ELSE <<>>
            pz    == IF step.z /= None THEN <<"Z" \o FloatStr(step.z[1])>> ELSE <<>>
            parts == <<cmd>> \o px \o py \o pz \o <<"F" \o FloatStr(step.f)>>
            gcode == Join(parts, " ")
        IN  Some(PREAMBLE \o " " \o gcode \o " " \o POSTAMBLE)

\* mutant: an axis is tested for truth, not for None
build_move_truth(step) ==
    IF IsNone(step.x) /\ IsNone(step.y) /\ IsNone(step.z) THEN None
    ELSE
        LET cmd   == IF step.cmd \in {"G00", "G01"} THEN step.cmd ELSE "G01"
            px    == IF step.x /= None /\ step.x[1] /= 0
                     THEN <<"X" \o FloatStr(step.x[1])>> ELSE <<>>
            py    == IF step.y /= None /\ step.y[1] /= 0
                     THEN <<"Y" \o FloatStr(step.y[1])>> ELSE <<>>
            pz    == IF step.z /= None /\ step.z[1] /= 0
                     THEN <<"Z" \o FloatStr(step.z[1])>> ELSE <<>>
            parts == <<cmd>> \o px \o py \o pz \o <<"F" \o FloatStr(step.f)>>
            gcode == Join(parts, " ")
        IN  Some(PREAMBLE \o " " \o gcode \o " " \o POSTAMBLE)

build_move(step) ==
    IF IsNone(step.x) /\ IsNone(step.y) /\ IsNone(step.z) THEN None
    ELSE
        LET cmd   == IF step.cmd \in {"G00", "G01"} THEN step.cmd ELSE "G01"
            px    == IF step.x /= None THEN <<"X" \o FloatStr(step.x[1])>> ELSE <<>>
            py    == IF step.y /= None THEN <<"Y" \o FloatStr(step.y[1])>> ELSE <<>>
            pz    == IF step.z /= None THEN <<"Z" \o FloatStr(step.z[1])>> ELSE <<>>
            parts == <<cmd>> \o px \o py \o pz \o <<"F" \o FloatStr(step.f)>>
            gcode == Join(parts, " ")
        IN  Some(PREAMBLE \o " " \o gcode \o " " \o POSTAMBLE)

\* mutant: the angle is tested for truth, so an angle of 0 builds no frame
build_do0_truth(step) ==
    IF IsNone(step.do0) \/ step.do0[1] = 0 THEN None
    ELSE
        LET angle == step.do0[1]
            gcode == "G06 D7 S1 A" \o FloatStr(angle)
        IN  Some(PREAMBLE \o " " \o gcode \o " " \o POSTAMBLE)

build_do0(step) ==
    IF IsNone(step.do0) THEN None
    ELSE
        LET angle == step.do0[1]
            gcode == "G06 D7 S1 A" \o FloatStr(angle)
        IN  Some(PREAMBLE \o " " \o gcode \o " " \o POSTAMBLE)

-----------------------------------------------------------------------------
(* Events of the history *)

Event(ev, step, data, ms) == [ev |-> ev, step |-> step, data |-> data, ms |-> ms]

EvOpen == Event("open", 0, "", 0)

EvClose == Event("close", 0, "", 0)

EvCall(k, frame) == Event("call", k, frame, 0)

EvWrite(k, frame) == Event("write", k, frame, 0)

EvSettle(k) == Event("settle", k, "", SETTLE_MS)

EvRead(k) == Event("read", k, "", 0)

EvSleep(k, ms) == Event("sleep", k, "", ms)

-----------------------------------------------------------------------------
(* serial_comm.py: send_command *)

\* what the device and the driver can do to one send_command call
SendOutcomes == {"reply", "empty", "write_error", "read_error"}

\* mutant: a read that times out with no bytes is an error
send_command_raises_on_empty(port, outcome) ==
    IF ~port[1].is_open THEN "RuntimeError"
    ELSE IF outcome \in {"write_error", "read_error"} THEN "SerialException"
    ELSE IF outcome = "empty" THEN "TimeoutError"
    ELSE ""

\* the exception send_command raises ("" = it returns)
send_command_raises(port, outcome) ==
    IF ~port[1].is_open THEN "RuntimeError"
    ELSE IF outcome \in {"write_error", "read_error"} THEN "SerialException"
    ELSE ""

\* mutant: the is_open test is missing, so the write is tried on any port
send_command_events_unchecked(port, k, frame, outcome) ==
    <<EvCall(k, frame)>> \o
    (IF outcome = "write_error" THEN <<>>
     ELSE IF outcome = "read_error" THEN <<EvWrite(k, frame), EvSettle(k)>>
     ELSE <<EvWrite(k, frame), EvSettle(k), EvRead(k)>>)

\* the events of one send_command call made while running step k
send_command_events(port, k, frame, outcome) ==
    <<EvCall(k, frame)>> \o
    (IF ~port[1].is_open THEN <<>>
     ELSE IF outcome = "write_error" THEN <<>>
     ELSE IF outcome = "read_error" THEN <<EvWrite(k, frame), EvSettle(k)>>
     ELSE <<EvWrite(k, frame), EvSettle(k), EvRead(k)>>)

\* the bytes send_command returns
send_command_reply(outcome) == IF outcome = "reply" THEN "ack" ELSE ""

-----------------------------------------------------------------------------
(* JSON documents: json.dump / json.load *)

\* the numbers and strings that occur in documents
JsonNumbers == {-1000, 0, 5, 10, 20, 90, 500, 2000}

JsonStrings ==
    Cmds \cup {"unnamed", "orgin", "pick_cup", "mango", "orange", "recipe", "Untitled", "", "1.0"}

\* json.dump of None, of a float, of a str
JNull == "null"

JNum(v) == FloatStr(v)

JStr(str) == "\"" \o str \o "\""

\* json.dump of an Optional[float]
JOpt(o) == IF o = None THEN JNull ELSE JNum(o[1])

\* json.load of a number token, of a string token, of null-or-number
JParseNum(t) == CHOOSE v \in JsonNumbers : JNum(v) = t

JParseStr(t) == CHOOSE str \in JsonStrings : JStr(str) = t

JParseOpt(t) == IF t = JNull THEN None ELSE Some(JParseNum(t))

\* dict.get(key): the token stored under key, null when the key is absent
DictGet(d, key) == IF key \in DOMAIN d THEN d[key] ELSE JNull

\* the content of a path of the disk: no such file, text that is not JSON,
\* or a JSON object with a name and a list of step objects
FileMissing == [kind |-> "missing", name |-> JNull, steps |-> <<>>]

FileBad == [kind |-> "bad", name |-> JNull, steps |-> <<>>]

JsonObject(name, steps) == [kind |-> "object", name |-> name, steps |-> steps]

\* a document that is a bare JSON array of step objects
JsonArray(steps) == [kind |-> "array", name |-> JNull, steps |-> steps]

-----------------------------------------------------------------------------
(* models.py: Step and Program, their dict forms and file I/O *)

\* Step.to_dict (asdict) as json.dump writes it
Step_to_dict(step) ==
    [cmd   |-> JStr(step.cmd),
     x     |-> JOpt(step.x),
     y     |-> JOpt(step.y),
     z     |-> JOpt(step.z),
     f     |-> JNum(step.f),
     delay |-> JNum(step.delay),
     do0   |-> JOpt(step.do0)]

\* mutant: from_dict reads the axes under the keys of the enhanced model
Step_from_dict_upper(data) ==
    Step(IF "cmd" \in DOMAIN data THEN JParseStr(data.cmd) ELSE "G01",
         JParseOpt(DictGet(data, "X")),
         JParseOpt(DictGet(data, "Y")),
         JParseOpt(DictGet(data, "Z")),
         IF "f" \in DOMAIN data THEN JParseNum(data.f) ELSE DEFAULT_FEED,
         IF "delay" \in DOMAIN data THEN JParseNum(data.delay) ELSE DEFAULT_DELAY_MS,
         JParseOpt(DictGet(data, "do0")))

\* Step.from_dict
Step_from_dict(data) ==
    Step(IF "cmd" \in DOMAIN data THEN JParseStr(data.cmd) ELSE "G01",
         JParseOpt(DictGet(data, "x")),
         JParseOpt(DictGet(data, "y")),
         JParseOpt(DictGet(data, "z")),
         IF "f" \in DOMAIN data THEN JParseNum(data.f) ELSE DEFAULT_FEED,
         IF "delay" \in DOMAIN data THEN JParseNum(data.delay) ELSE DEFAULT_DELAY_MS,
         JParseOpt(DictGet(data, "do0")))

\* a Program object: its name and its list of references to Step objects
ProgramObj(name, steps) == [name |-> name, steps |-> steps]

\* the Step objects a list of references stands for
Deref(h, refs) == [n \in 1..Len(refs) |-> h[refs[n]]]

\* Program.to_dict as json.dump writes it (Program.save)
Program_to_dict(h, program) ==
    JsonObject(JStr(program.name),
               [n \in 1..Len(program.steps) |-> Step_to_dict(h[program.steps[n]])])

\* the exception Program.load raises on a file ("" = none): open(), json.load,
\* or from_dict calling data.get on a document that is a list
Program_load_raises(content) ==
    IF content.kind = "missing" THEN "FileNotFoundError"
    ELSE IF content.kind = "bad" THEN "JSONDecodeError"
    ELSE IF content.kind = "array" THEN "AttributeError"
    ELSE ""

\* the heap after Program.load: from_dict makes one new Step object per entry
Program_load_heap(h, content) ==
    h \o [n \in 1..Len(content.steps) |-> Step_from_dict(content.steps[n])]

\* the Program that Program.load returns
Program_load(h, content) ==
    ProgramObj(IF content.name = JNull THEN "unnamed" ELSE JParseStr(content.name),
               [n \in 1..Len(content.steps) |-> Len(h) + n])

-----------------------------------------------------------------------------
(* drink_runner.py: the program files of make_drink *)

MaxSubSteps == 1

JuiceKeys == {"mango", "orange"}

OriginPath == "programs/orgin.json"

CommonPath == "programs/common/pick_cup.json"

JuicePath(juice_key) == "programs/juices/" \o juice_key \o ".json"

Paths == {OriginPath, CommonPath} \cup { JuicePath(k) : k \in JuiceKeys }

\* the Steps of the sub-programs: a move or an angle
DrinkSteps ==
    { Step("G00", Some(0), None, Some(5), DEFAULT_FEED, 2000, None),
      Step("G01", None, None, None, DEFAULT_FEED, 2000, Some(90)) }

\* what a program file can hold
FileContents ==
    {FileMissing, FileBad}
    \cup { JsonObject(JStr("recipe"), [n \in 1..Len(p) |-> Step_to_dict(p[n])]) :
             p \in SeqsUpTo(DrinkSteps, MaxSubSteps) }

\* the orange recipe is one fixed file
OrangeFile ==
    JsonObject(JStr("orange"),
               <<Step_to_dict(Step("G01", Some(10), Some(10), None, DEFAULT_FEED, 500, Some(0)))>>)

Disks ==
    { [path \in Paths |->
         IF path = OriginPath THEN c[1]
         ELSE IF path = CommonPath THEN c[2]
         ELSE IF path = JuicePath("mango") THEN c[3]
         ELSE OrangeFile] :
      c \in FileContents \X FileContents \X FileContents }

\* make_drink not called
MdIdle ==
    [pc |-> "idle", juice_key |-> "", origin_prog |-> None, common_prog |-> None,
     juice_prog |-> None, full_prog |-> None, exc |-> ""]

DrinkIdle ==
    /\ files = [path \in {} |-> FileMissing]
    /\ heap = <<>>
    /\ md = MdIdle

-----------------------------------------------------------------------------
(* The application at rest: no thread started, nothing ordered *)

\* the threads that can call run_program: two "Test ... Recipe Once" workers
\* of DeveloperPage, and the main thread in the teaching GUI's "Run program"
TestThreads == {"test1", "test2"}

Runners == TestThreads \cup {"teach"}

AppIdle ==
    /\ tpc = [t \in Runners |-> "idle"]
    /\ held = {}

KioskIdle ==
    /\ page = [order |-> <<>>, active_orders |-> <<>>, is_running |-> FALSE]
    /\ db = <<>>
    /\ qt = [pc |-> "none", exc |-> "", ended |-> <<>>]

\* enhanced_models.py: Program(...): the dataclass constructor stores its
\* arguments as they are
EProgram(name, description, steps, version, created_at, modified_at) ==
    [name |-> name, description |-> description, steps |-> steps,
     version |-> version, created_at |-> created_at, modified_at |-> modified_at]

\* Program() built when the clock reads 0
NewProgram == EProgram("Untitled", "", <<>>, "1.0", 0, 0)

\* no method called yet
NoCall ==
    [op |-> "none", index |-> 0, steps |-> <<>>, at |-> 0,
     before |-> NewProgram, ret |-> "none"]

ValIdle ==
    /\ arg = None
    /\ ret = None

ProgIdle ==
    /\ eprog = NewProgram
    /\ now = 0
    /\ call = NoCall

NoRoundTrip == [pc |-> "none", mem |-> <<>>, heap |-> <<>>, doc |-> <<>>, back |-> <<>>]

RtIdle ==
    /\ mrt = NoRoundTrip
    /\ ert = NoRoundTrip

DataIdle == ValIdle /\ ProgIdle /\ RtIdle

\* no old-format file looked at
NoLegacy ==
    [path |-> "", msteps |-> <<>>, esteps |-> <<>>,
     mpc |-> "none", mexc |-> "", mback |-> <<>>, mheap |-> <<>>,
     epc |-> "none", eexc |-> "", eback |-> <<>>]

LegIdle == leg = NoLegacy

\* queue_manager.py: QueueManager.__init__ with no pending order in the database
NewQueueManager ==
    [queue |-> <<>>, current_order |-> None, is_processing |-> FALSE, is_paused |-> FALSE]

\* no worker thread started
NoWorker == [pc |-> "none", events |-> <<>>, removed |-> <<>>]

QmIdle ==
    /\ qm = NewQueueManager
    /\ odb = <<>>
    /\ qw = NoWorker

ExtraIdle == LegIdle /\ QmIdle

RestIdle == AppIdle /\ KioskIdle /\ DataIdle /\ ExtraIdle

-----------------------------------------------------------------------------
(* serial_comm.py: run_program *)

NoResult == [kind |-> "none", cause |-> "", step |-> None]

\* run_program returns None
Returned == [kind |-> "returned", cause |-> "", step |-> None]

\* the exception leaves run_program as it was raised: it names its cause only
Raised(cause) == [kind |-> "raised", cause |-> cause, step |-> None]

\* position of the for loop once the body for step k - 1 has ended
LoopAt(k) == IF k <= Len(prog) THEN "do0" ELSE "finally"

InitRun(programs) ==
    /\ prog \in programs
    /\ pc = "open"
    /\ i = 0
    /\ do_cmd = None
    /\ move_cmd = None
    /\ ser = None
    /\ reply = ""
    /\ exc = ""
    /\ result = NoResult
    /\ log = <<>>

Init == InitRun(Programs) /\ DrinkIdle /\ RestIdle

\* ser = open_port(): serial.Serial(...) opened the port
OpenPortOk ==
    /\ pc = "open"
    /\ ser' = Some([is_open |-> TRUE])
    /\ log' = Append(log, EvOpen)
    /\ i' = 1
    /\ pc' = LoopAt(1)
    /\ UNCHANGED <<prog, do_cmd, move_cmd, reply, exc, result>>
    /\ UNCHANGED notRun

\* mutant: open_port is called inside the try block, so finally closes
OpenPortFailInTry ==
    /\ pc = "open"
    /\ exc' = "SerialException"
    /\ pc' = "finally"
    /\ UNCHANGED <<prog, i, do_cmd, move_cmd, ser, reply, result, log>>
    /\ UNCHANGED notRun

\* ser = open_port(): serial.Serial(...) raised, outside the try block
OpenPortFail ==
    /\ pc = "open"
    /\ result' = Raised("SerialException")
    /\ pc' = "done"
    /\ UNCHANGED <<prog, i, do_cmd, move_cmd, ser, reply, exc, log>>
    /\ UNCHANGED notRun

\* mutant: an error of the actuator send is swallowed and the step goes on
StepDo0Resume ==
    /\ pc = "do0"
    /\ LET cmd == build_do0(prog[i])
       IN  /\ do_cmd' = cmd
           /\ IF Truthy(cmd)
              THEN \E outcome \in SendOutcomes :
                     LET raises == send_command_raises(ser, outcome)
                     IN  /\ log' = log \o send_command_events(ser, i, cmd[1], outcome)
                         /\ reply' = IF raises = "" THEN send_command_reply(outcome) ELSE reply
              ELSE UNCHANGED <<log, reply>>
           /\ pc' = "move"
    /\ UNCHANGED <<prog, i, move_cmd, ser, exc, result>>
    /\ UNCHANGED notRun

\* do_cmd = build_do0(step); if do_cmd: send_command(ser, do_cmd)
StepDo0 ==
    /\ pc = "do0"
    /\ LET cmd == build_do0(prog[i])
       IN  /\ do_cmd' = cmd
           /\ IF Truthy(cmd)
              THEN \E outcome \in SendOutcomes :
                     LET raises == send_command_raises(ser, outcome)
                     IN  /\ log' = log \o send_command_events(ser, i, cmd[1], outcome)
                         /\ exc' = raises
                         /\ reply' = IF raises = "" THEN send_command_reply(outcome) ELSE reply
                         /\ pc' = IF raises = "" THEN "move" ELSE "finally"
              ELSE /\ pc' = "move"
                   /\ UNCHANGED <<log, exc, reply>>
    /\ UNCHANGED <<prog, i, move_cmd, ser, result>>
    /\ UNCHANGED notRun

\* move_cmd = build_move(step); if move_cmd: send_command(ser, move_cmd)
StepMove ==
    /\ pc = "move"
    /\ LET cmd == build_move(prog[i])
       IN  /\ move_cmd' = cmd
           /\ IF Truthy(cmd)
              THEN \E outcome \in SendOutcomes :
                     LET raises == send_command_raises(ser, outcome)
                     IN  /\ log' = log \o send_command_events(ser, i, cmd[1], outcome)
                         /\ exc' = raises
                         /\ reply' = IF raises = "" THEN send_command_reply(outcome) ELSE reply
                         /\ pc' = IF raises = "" THEN "delay" ELSE "finally"
              ELSE /\ pc' = "delay"
                   /\ UNCHANGED <<log, exc, reply>>
    /\ UNCHANGED <<prog, i, do_cmd, ser, result>>
    /\ UNCHANGED notRun

\* mutant: the loop index advances by two, so a step is skipped
StepDelaySkip ==
    /\ pc = "delay"
    /\ IF prog[i].delay < 0
       THEN /\ exc' = "ValueError"
            /\ pc' = "finally"
            /\ UNCHANGED <<i, log>>
       ELSE /\ log' = Append(log, EvSleep(i, prog[i].delay))
            /\ i' = i + 2
            /\ pc' = LoopAt(i + 2)
            /\ UNCHANGED exc
    /\ UNCHANGED <<prog, do_cmd, move_cmd, ser, reply, result>>
    /\ UNCHANGED notRun

\* mutant: the delay is slept only after a step that sent a frame
StepDelayOnlyAfterFrames ==
    /\ pc = "delay"
    /\ IF prog[i].delay < 0 /\ (Truthy(do_cmd) \/ Truthy(move_cmd))
       THEN /\ exc' = "ValueError"
            /\ pc' = "finally"
            /\ UNCHANGED <<i, log>>
       ELSE /\ log' = IF Truthy(do_cmd) \/ Truthy(move_cmd)
                      THEN Append(log, EvSleep(i, prog[i].delay))
                      ELSE log
            /\ i' = i + 1
            /\ pc' = LoopAt(i + 1)
            /\ UNCHANGED exc
    /\ UNCHANGED <<prog, do_cmd, move_cmd, ser, reply, result>>
    /\ UNCHANGED notRun

\* mutant: every step sleeps the default delay, not its own
StepDelayDefault ==
    /\ pc = "delay"
    /\ log' = Append(log, EvSleep(i, DEFAULT_DELAY_MS))
    /\ i' = i + 1
    /\ pc' = LoopAt(i + 1)
    /\ UNCHANGED <<prog, do_cmd, move_cmd, ser, reply, exc, result>>
    /\ UNCHANGED notRun

\* mutant: a step that has been slept for has its delay set to zero
StepDelayClears ==
    /\ pc = "delay"
    /\ IF prog[i].delay < 0
       THEN /\ exc' = "ValueError"
            /\ pc' = "finally"
            /\ UNCHANGED <<i, log, prog>>
       ELSE /\ log' = Append(log, EvSleep(i, prog[i].delay))
            /\ prog' = [prog EXCEPT ![i].delay = 0]
            /\ i' = i + 1
            /\ pc' = LoopAt(i + 1)
            /\ UNCHANGED exc
    /\ UNCHANGED <<do_cmd, move_cmd, ser, reply, result>>
    /\ UNCHANGED notRun

\* time.sleep(step.delay), then the next iteration of the loop
StepDelay ==
    /\ pc = "delay"
    /\ IF prog[i].delay < 0
       THEN /\ exc' = "ValueError"
            /\ pc' = "finally"
            /\ UNCHANGED <<i, log>>
       ELSE /\ log' = Append(log, EvSleep(i, prog[i].delay))
            /\ i' = i + 1
            /\ pc' = LoopAt(i + 1)
            /\ UNCHANGED exc
    /\ UNCHANGED <<prog, do_cmd, move_cmd, ser, reply, result>>
    /\ UNCHANGED notRun

\* mutant: close() is the last statement of the try body, not a finally
FinallyLeak ==
    /\ pc = "finally"
    /\ ser' = IF exc = "" THEN Some([is_open |-> FALSE]) ELSE ser
    /\ log' = IF exc = "" THEN Append(log, EvClose) ELSE log
    /\ result' = IF exc = "" THEN Returned ELSE Raised(exc)
    /\ pc' = "done"
    /\ UNCHANGED <<prog, i, do_cmd, move_cmd, reply, exc>>
    /\ UNCHANGED notRun

\* finally: ser.close(); then the return, or the exception goes on to the caller
Finally ==
    /\ pc = "finally"
    /\ ser' = Some([is_open |-> FALSE])
    /\ log' = Append(log, EvClose)
    /\ result' = IF exc = "" THEN Returned ELSE Raised(exc)
    /\ pc' = "done"
    /\ UNCHANGED <<prog, i, do_cmd, move_cmd, reply, exc>>
    /\ UNCHANGED notRun

Next ==
    \/ OpenPortOk
    \/ OpenPortFail
    \/ StepDo0
    \/ StepMove
    \/ StepDelay
    \/ Finally

Spec == Init /\ [][Next]_vars

-----------------------------------------------------------------------------
(* run_program on a port whose driver can come to report not-open.

   ser.is_open is what the serial.Serial object reports.  run_program never
   closes the port inside the loop, so inside a run only the driver can turn
   it false; send_command tests it before every write.                      *)

MaxPortSteps == 2

EvDrop(k) == Event("drop", k, "", 0)

InitPort == InitRun(SeqsUpTo(RunSteps, MaxPortSteps)) /\ DrinkIdle /\ RestIdle

\* the Serial object stops reporting open while step i is being run
PortReportsClosed ==
    /\ pc \in {"do0", "move", "delay"}
    /\ ser # None
    /\ ser[1].is_open
    /\ ser' = Some([is_open |-> FALSE])
    /\ log' = Append(log, EvDrop(i))
    /\ UNCHANGED <<prog, pc, i, do_cmd, move_cmd, reply, exc, result>>
    /\ UNCHANGED notRun

NextPort ==
    \/ OpenPortOk
    \/ OpenPortFail
    \/ StepDo0
    \/ StepMove
    \/ StepDelay
    \/ Finally
    \/ PortReportsClosed

SpecPort == InitPort /\ [][NextPort]_vars

-----------------------------------------------------------------------------
(* drink_runner.py: make_drink (order_runner.run_order is the same code) *)

\* run_program has not been called
RunIdle ==
    /\ prog = <<>>
    /\ pc = "idle"
    /\ i = 0
    /\ do_cmd = None
    /\ move_cmd = None
    /\ ser = None
    /\ reply = ""
    /\ exc = ""
    /\ result = NoResult
    /\ log = <<>>

InitDrink ==
    /\ RunIdle
    /\ files \in Disks
    /\ heap = <<>>
    /\ \E key \in JuiceKeys : md = [MdIdle EXCEPT !.pc = "load_origin", !.juice_key = key]
    /\ RestIdle

\* local = Program.load(path), then on to the statement at next
LoadInto(at, path, local, next) ==
    /\ md.pc = at
    /\ IF Program_load_raises(files[path]) /= ""
       THEN /\ md' = [md EXCEPT !.pc = "done", !.exc = Program_load_raises(files[path])]
            /\ UNCHANGED heap
       ELSE /\ md' = [md EXCEPT !.pc = next, ![local] = Some(Program_load(heap, files[path]))]
            /\ heap' = Program_load_heap(heap, files[path])
    /\ UNCHANGED <<files, runVars>>
    /\ UNCHANGED others

\* origin_prog = Program.load(PROGRAM_DIR / "orgin.json")
LoadOrigin == LoadInto("load_origin", OriginPath, "origin_prog", "load_common")

\* common_prog = Program.load(PROGRAM_DIR / "common" / "pick_cup.json")
LoadCommon == LoadInto("load_common", CommonPath, "common_prog", "load_juice")

\* mutant: a juice file that cannot be loaded counts as an empty program
LoadJuiceLenient ==
    /\ md.pc = "load_juice"
    /\ IF Program_load_raises(files[JuicePath(md.juice_key)]) /= ""
       THEN /\ md' = [md EXCEPT !.pc = "compose", !.juice_prog = Some(ProgramObj("unnamed", <<>>))]
            /\ UNCHANGED heap
       ELSE /\ md' = [md EXCEPT !.pc = "compose",
                                !.juice_prog = Some(Program_load(heap, files[JuicePath(md.juice_key)]))]
            /\ heap' = Program_load_heap(heap, files[JuicePath(md.juice_key)])
    /\ UNCHANGED <<files, runVars>>
    /\ UNCHANGED others

\* juice_prog = Program.load(PROGRAM_DIR / "juices" / f"{juice_key}.json")
LoadJuice == LoadInto("load_juice", JuicePath(md.juice_key), "juice_prog", "compose")

\* mutant: the shared pick-cup steps are put first
ComposeCommonFirst ==
    /\ md.pc = "compose"
    /\ md' = [md EXCEPT
                !.pc = "run",
                !.full_prog = Some(ProgramObj("drink_" \o md.juice_key,
                                              md.common_prog[1].steps
                                              \o md.origin_prog[1].steps
                                              \o md.juice_prog[1].steps))]
    /\ UNCHANGED <<files, heap, runVars>>
    /\ UNCHANGED others

\* full_prog = Program(name=...); full_prog.steps.extend(...) three times
Compose ==
    /\ md.pc = "compose"
    /\ md' = [md EXCEPT
                !.pc = "run",
                !.full_prog = Some(ProgramObj("drink_" \o md.juice_key,
                                              md.origin_prog[1].steps
                                              \o md.common_prog[1].steps
                                              \o md.juice_prog[1].steps))]
    /\ UNCHANGED <<files, heap, runVars>>
    /\ UNCHANGED others

\* run_program(full_prog) is entered
CallRunProgram ==
    /\ md.pc = "run"
    /\ pc = "idle"
    /\ prog' = Deref(heap, md.full_prog[1].steps)
    /\ pc' = "open"
    /\ md' = [md EXCEPT !.pc = "running"]
    /\ UNCHANGED <<i, do_cmd, move_cmd, ser, reply, exc, result, log, files, heap>>
    /\ UNCHANGED others

\* run_program has returned or raised: make_drink ends the same way
EndOfRun ==
    /\ md.pc = "running"
    /\ pc = "done"
    /\ md' = [md EXCEPT !.pc = "done", !.exc = result.cause]
    /\ UNCHANGED <<files, heap, runVars>>
    /\ UNCHANGED others

NextDrink ==
    \/ LoadOrigin
    \/ LoadCommon
    \/ LoadJuice
    \/ Compose
    \/ CallRunProgram
    \/ OpenPortOk
    \/ OpenPortFail
    \/ StepDo0
    \/ StepMove
    \/ StepDelay
    \/ Finally
    \/ EndOfRun

SpecDrink == InitDrink /\ [][NextDrink]_vars

-----------------------------------------------------------------------------
(* The frame builders on their own, over every Step of Steps *)

InitBuild ==
    /\ prog \in { <<s>> : s \in Steps }
    /\ pc = "build"
    /\ i = 1
    /\ do_cmd = None
    /\ move_cmd = None
    /\ ser = None
    /\ reply = ""
    /\ exc = ""
    /\ result = NoResult
    /\ log = <<>>
    /\ DrinkIdle
    /\ RestIdle

\* do_cmd = build_do0(step); move_cmd = build_move(step)
BuildFrames ==
    /\ pc = "build"
    /\ do_cmd' = build_do0(prog[i])
    /\ move_cmd' = build_move(prog[i])
    /\ pc' = "built"
    /\ UNCHANGED <<prog, i, ser, reply, exc, result, log>>
    /\ UNCHANGED notRun

NextBuild == BuildFrames

SpecBuild == InitBuild /\ [][NextBuild]_vars

-----------------------------------------------------------------------------
(* Vocabulary of the properties *)

IsPrefix(s, t) == Len(s) <= Len(t) /\ SubSeq(t, 1, Len(s)) = s

Events(ev) == SelectSeq(log, LAMBDA e : e.ev = ev)

Count(ev) == Len(Events(ev))

\* <<step, frame>> of every event of kind ev, in order
Frames(ev) == [n \in 1..Count(ev) |-> <<Events(ev)[n].step, Events(ev)[n].data>>]

\* the frames send_command was called with while running step k
CallsOf(k) ==
    LET es == SelectSeq(log, LAMBDA e : e.ev = "call" /\ e.step = k)
    IN  [n \in 1..Len(es) |-> es[n].data]

\* index in the history of the last event of kind ev (0 = there is none)
LastIndex(ev) ==
    LET at == {n \in 1..Len(log) : log[n].ev = ev}
    IN  IF at = {} THEN 0 ELSE CHOOSE n \in at : \A m \in at : m <= n

HasCoords(step) == step.x /= None \/ step.y /= None \/ step.z /= None

HasAngle(step) == step.do0 /= None

\* the frames of step k as the builders give them, each tagged with k
StepFrames(k) ==
    [n \in 1..Len(build_do0(prog[k]) \o build_move(prog[k])) |->
        <<k, (build_do0(prog[k]) \o build_move(prog[k]))[n]>>]

\* frames(step 1) o ... o frames(step k)
RECURSIVE FramesUpTo(_)
FramesUpTo(k) == IF k = 0 THEN <<>> ELSE FramesUpTo(k - 1) \o StepFrames(k)

\* a send_command call has raised: it was entered and its read never returned
SendFailed == Count("call") > Count("read")

\* the port was opened by this run
Opened == Count("open") = 1

\* the wire format of the actuator frame
ActuatorFrame(angle) ==
    Join(<<PREAMBLE, "G06", "D7", "S1", "A" \o FloatStr(angle), POSTAMBLE>>, " ")

\* the wire format of the move frame of a step, with the given command tag
MoveFrame(tag, step) ==
    Join(<<PREAMBLE, tag>>
         \o (IF step.x = None THEN <<>> ELSE <<"X" \o FloatStr(step.x[1])>>)
         \o (IF step.y = None THEN <<>> ELSE <<"Y" \o FloatStr(step.y[1])>>)
         \o (IF step.z = None THEN <<>> ELSE <<"Z" \o FloatStr(step.z[1])>>)
         \o <<"F" \o FloatStr(step.f), POSTAMBLE>>, " ")

\* the history of one successful send_command call of step k
SentOk(k, frame) == <<EvCall(k, frame), EvWrite(k, frame), EvSettle(k), EvRead(k)>>

RECURSIVE SentAllOk(_, _)
SentAllOk(k, frames) ==
    IF frames = <<>> THEN <<>>
    ELSE SentOk(k, Head(frames)) \o SentAllOk(k, Tail(frames))

\* the history of steps 1..k all done: each step's frames, then its delay
RECURSIVE StepsDone(_)
StepsDone(k) ==
    IF k = 0 THEN <<>>
    ELSE StepsDone(k - 1)
         \o SentAllOk(k, (IF HasAngle(prog[k]) THEN <<ActuatorFrame(prog[k].do0[1])>> ELSE <<>>)
                         \o (IF HasCoords(prog[k]) THEN <<MoveFrame(prog[k].cmd, prog[k])>> ELSE <<>>))
         \o <<EvSleep(k, prog[k].delay)>>

-----------------------------------------------------------------------------
(* C1..C10: the runner and the frame builders *)

\* C1: when open_port succeeded the port is closed exactly once before
\* run_program returns or lets an error out, on every exit path; it is never
\* closed twice and never closed while the run goes on.
C1_ClosedExactlyOnce ==
    Opened =>
        /\ Count("close") <= 1
        /\ pc = "done" => /\ Count("close") = 1
                          /\ log[Len(log)] = EvClose
                          /\ ~ser[1].is_open
        /\ pc /= "done" => Count("close") = 0 /\ ser[1].is_open

\* a run whose second step's move send failed has ended, the port closed
C1_Witness ==
    /\ pc = "done"
    /\ result.kind = "raised"
    /\ result.cause = "SerialException"
    /\ i = 2
    /\ Len(CallsOf(2)) = 2
    /\ Count("close") = 1

\* C2: when the port cannot be opened the run fails with nothing attempted:
\* no send_command call, no delay, no close; the error of the open is what
\* the caller gets.
C2_OpenFailsNothingAttempted ==
    ~Opened =>
        /\ log = <<>>
        /\ ser = None
        /\ pc = "done" => result = Raised("SerialException")

\* the open of a run of a non-empty program failed
C2_Witness == pc = "done" /\ ~Opened /\ Len(prog) = MaxSteps /\ HasCoords(prog[1])

\* C3: a send that fails at step k ends the sending: at most one send ever
\* fails, nothing is sent or slept after it, the run is on its way out, and
\* the frames sent are those of steps 1..k up to the failing one, in order.
C3_FailedSendAborts ==
    /\ Count("call") - Count("read") <= 1
    /\ SendFailed =>
        /\ pc \in {"finally", "done"}
        /\ exc \in {"SerialException", "RuntimeError"}
        /\ \A n \in LastIndex("call") + 1 .. Len(log) : log[n].ev \in {"write", "settle", "close"}
        /\ log[LastIndex("call")].step = i
        /\ \A n \in 1..Len(log) : log[n].step <= i
        /\ IsPrefix(Frames("call"), FramesUpTo(i))
        /\ Len(Frames("call")) > Len(FramesUpTo(i - 1))
        /\ Frames("write") \in {Frames("call"), SubSeq(Frames("call"), 1, Count("call") - 1)}

\* the first frame of step 1 failed and steps with frames were left
C3_Witness ==
    /\ pc = "done"
    /\ SendFailed
    /\ i = 1
    /\ Count("call") = 1
    /\ Len(FramesUpTo(Len(prog))) >= 4

\* C4: a failed run reports Failed(step_index, cause): the outcome the caller
\* gets carries the index of the step whose send failed.
C4_FailedCarriesStepIndex ==
    (pc = "done" /\ SendFailed) =>
        /\ result.kind = "raised"
        /\ result.cause = exc
        /\ result.step = Some(i)

\* C5: the frames written to the port are always a prefix of
\* frames(step 1) o ... o frames(step n), and all of it when the run completes.
C5_FramesInListOrder ==
    /\ IsPrefix(Frames("call"), FramesUpTo(Len(prog)))
    /\ IsPrefix(Frames("write"), FramesUpTo(Len(prog)))
    /\ result.kind = "returned" => Frames("write") = FramesUpTo(Len(prog))

\* a run of MaxSteps steps, two frames each, has completed
C5_Witness ==
    /\ result.kind = "returned"
    /\ Len(prog) = MaxSteps
    /\ Count("write") = 2 * MaxSteps

\* C6: a step with an angle and a coordinate sends exactly two frames, the
\* actuator (G06) frame before the move frame, also for an angle of 0.
C6_ActuatorBeforeMove ==
    \A k \in 1..Len(prog) :
        (HasAngle(prog[k]) /\ HasCoords(prog[k])) =>
            LET two == <<ActuatorFrame(prog[k].do0[1]), MoveFrame(prog[k].cmd, prog[k])>>
            IN  /\ IsPrefix(CallsOf(k), two)
                /\ (k < i \/ (k = i /\ pc = "delay")) => CallsOf(k) = two

\* the frames of a step with angle 0 and coordinates have both been sent
C6_Witness ==
    /\ pc = "delay"
    /\ prog[i].do0 = Some(0)
    /\ HasCoords(prog[i])
    /\ Len(CallsOf(i)) = 2

\* C7: a Step yields (1 if the angle is present) + (1 if a coordinate is
\* present) frames, so never more than two; an angle without coordinates
\* yields the actuator frame alone.
C7_FrameCount ==
    pc = "built" =>
        LET step == prog[i]
            n    == Len(do_cmd \o move_cmd)
        IN  /\ n = (IF HasAngle(step) THEN 1 ELSE 0) + (IF HasCoords(step) THEN 1 ELSE 0)
            /\ n <= 2
            /\ Len(do_cmd) = (IF HasAngle(step) THEN 1 ELSE 0)
            /\ (HasAngle(step) /\ ~HasCoords(step)) =>
                   do_cmd = Some(ActuatorFrame(step.do0[1])) /\ move_cmd = None

\* the frames of a step with only a coordinate, of value 0, were built
C7_Witness ==
    /\ pc = "built"
    /\ prog[i].x = Some(0) /\ prog[i].y = None /\ prog[i].z = None
    /\ prog[i].do0 = None
    /\ Len(do_cmd \o move_cmd) = 1

\* C8: the move frame of a Step with a coordinate is preamble, command tag,
\* a token for each present axis in the order X Y Z (none for an absent axis,
\* one for a present axis of value 0), the F token, postamble, single spaces
\* between them.
C8_MoveFrameFormat ==
    (pc = "built" /\ HasCoords(prog[i])) =>
        \E tag \in {"G00", "G01"} :
            /\ prog[i].cmd \in {"G00", "G01"} => tag = prog[i].cmd
            /\ move_cmd = Some(MoveFrame(tag, prog[i]))

\* the move frame of a G00 step with x = 0, no y and z = 10 was built
C8_Witness ==
    /\ pc = "built"
    /\ prog[i].cmd = "G00"
    /\ prog[i].x = Some(0) /\ prog[i].y = None /\ prog[i].z = Some(10)
    /\ move_cmd = Some("0x550xAA G00 X0.0 Z10.0 F20.0 0xAA0x55")

\* C9: a Step with no coordinate and no angle sends nothing, and the runner
\* has slept its delay, once, before it goes on to the next step.
C9_EmptyStepStillDelays ==
    \A k \in 1..Len(prog) :
        (~HasCoords(prog[k]) /\ ~HasAngle(prog[k])) =>
            /\ \A n \in 1..Len(log) : log[n].step = k => log[n].ev = "sleep"
            /\ (k < i) =>
                  \E n \in 1..Len(log) :
                      /\ log[n] = EvSleep(k, prog[k].delay)
                      /\ \A m \in 1..Len(log) :
                            /\ (log[m].ev = "sleep" /\ log[m].step = k) => m = n
                            /\ log[m].step > k => m > n

\* an empty first step with a delay of 2 s is behind, the second step has sent
C9_Witness ==
    /\ Len(prog) >= 2
    /\ ~HasCoords(prog[1]) /\ ~HasAngle(prog[1])
    /\ prog[1].delay = 2000
    /\ i = 2
    /\ Len(CallsOf(2)) >= 1

\* C10: run_program returns normally only after every step's frames were
\* sent in order, each step's delay slept after its frames and before the
\* next step's, the last delay before the close; the delay of a step that
\* failed is not slept.
C10_CompletedMeansAllDone ==
    /\ result.kind = "returned" => log = <<EvOpen>> \o StepsDone(Len(prog)) \o <<EvClose>>
    /\ (exc /= "" /\ Opened) => \A n \in 1..Len(log) : ~(log[n].ev = "sleep" /\ log[n].step >= i)

\* a run of MaxSteps steps with frames and non-zero delays has returned
C10_Witness ==
    /\ result.kind = "returned"
    /\ Len(prog) = MaxSteps
    /\ \A k \in 1..Len(prog) : prog[k].delay = 2000 /\ HasCoords(prog[k])
    /\ prog[1].do0 = Some(0)

-----------------------------------------------------------------------------
(* C11..C20: the composer, the application, the Program model *)

\* the steps of a sub-program or of the composite of make_drink, by value
StepsOf(local) == Deref(heap, md[local][1].steps)

\* make_drink has built the composite
Composed == md.full_prog /= None

\* the three files that make_drink needs
NeededPaths == {OriginPath, CommonPath, JuicePath(md.juice_key)}

\* one of the three files is absent or is not JSON
SomeFileUnusable == \E path \in NeededPaths : files[path].kind \in {"missing", "bad"}

C12_LoadFailureBeforeOpen ==
    SomeFileUnusable =>
        /\ ~Composed
        /\ pc = "idle"
        /\ log = <<>>
        /\ ser = None
        /\ md.pc = "done" => md.exc \in {"FileNotFoundError", "JSONDecodeError"}
        /\ md.pc \in {"load_origin", "load_common", "load_juice", "done"}

\* origin and pick-cup were loaded, the juice file is not JSON, make_drink
\* has ended
C12_Witness ==
    /\ md.pc = "done"
    /\ md.exc = "JSONDecodeError"
    /\ md.origin_prog /= None
    /\ md.common_prog /= None
    /\ Len(heap) = 2

\* the Step objects (references) a Program object of make_drink holds
RefsOf(local) == { md[local][1].steps[n] : n \in 1..Len(md[local][1].steps) }

\* the steps a file holds, as Program.load reads them
StepsInFile(path) ==
    [n \in 1..Len(files[path].steps) |-> Step_from_dict(files[path].steps[n])]

\* C14: building the composite leaves each sub-program's step sequence as it
\* was loaded, and the composite holds copies: no Step object of the
\* composite is a Step object of a sub-program, so that a change to a step of
\* the composite cannot show in a sub-program.
C14_CompositeHoldsCopies ==
    Composed =>
        /\ StepsOf("origin_prog") = StepsInFile(OriginPath)
        /\ StepsOf("common_prog") = StepsInFile(CommonPath)
        /\ StepsOf("juice_prog") = StepsInFile(JuicePath(md.juice_key))
        /\ RefsOf("full_prog") \cap
              (RefsOf("origin_prog") \cup RefsOf("common_prog") \cup RefsOf("juice_prog")) = {}


-----------------------------------------------------------------------------
(* The callers of run_program inside one application process.

   DeveloperPage._test_drink starts a new worker thread on every click and
   keeps no flag; the teaching GUI's on_run_program runs run_program on the
   main thread, which handles no further click until it returns.  A runner
   goes idle -> load -> open -> loop -> finally -> done, the last four being
   the positions of run_program with its loop taken as one step.            *)

notApp == <<runVars, drinkVars, kioskVars, dataVars, extraVars>>

\* the main thread handles a click only between handlers
MainThreadFree == tpc["teach"] = "idle"

\* what serial.Serial(PORT, ...) does while another Serial object of the
\* process holds PORT: the platform decides.  Windows opens a COM port
\* exclusively and the open raises SerialException; POSIX opens the device
\* again (pyserial asks for no exclusive lock unless exclusive=True is passed)
BusyOpenOutcomes == {"refused", "granted"}

\* app.py DeveloperPage._test_drink: threading.Thread(target=worker).start()
ClickTestDrink(t) ==
    /\ MainThreadFree
    /\ tpc[t] = "idle"
    /\ tpc' = [tpc EXCEPT ![t] = "load"]
    /\ UNCHANGED held
    /\ UNCHANGED notApp

\* gui.py on_run_program: run_program(self.program) on the main thread
ClickRunProgram ==
    /\ MainThreadFree
    /\ tpc' = [tpc EXCEPT !["teach"] = "open"]
    /\ UNCHANGED held
    /\ UNCHANGED notApp

\* make_drink: the three Program.load calls, which may raise
LoadPrograms(t) ==
    /\ tpc[t] = "load"
    /\ \E loaded \in BOOLEAN :
          tpc' = [tpc EXCEPT ![t] = IF loaded THEN "open" ELSE "done"]
    /\ UNCHANGED held
    /\ UNCHANGED notApp

\* run_program: ser = open_port(), before the try
RunnerOpen(t) ==
    /\ tpc[t] = "open"
    /\ \/ /\ held = {}
          /\ \E present \in BOOLEAN :
                IF present
                THEN tpc' = [tpc EXCEPT ![t] = "loop"] /\ held' = held \cup {t}
                ELSE tpc' = [tpc EXCEPT ![t] = "done"] /\ UNCHANGED held
       \/ /\ held # {}
          /\ \E outcome \in BusyOpenOutcomes :
                IF outcome = "granted"
                THEN tpc' = [tpc EXCEPT ![t] = "loop"] /\ held' = held \cup {t}
                ELSE tpc' = [tpc EXCEPT ![t] = "done"] /\ UNCHANGED held
    /\ UNCHANGED notApp

\* run_program: the for loop, left by its end or by an exception
RunnerLoop(t) ==
    /\ tpc[t] = "loop"
    /\ tpc' = [tpc EXCEPT ![t] = "finally"]
    /\ UNCHANGED held
    /\ UNCHANGED notApp

\* run_program: finally: ser.close()
RunnerClose(t) ==
    /\ tpc[t] = "finally"
    /\ held' = held \ {t}
    /\ tpc' = [tpc EXCEPT ![t] = "done"]
    /\ UNCHANGED notApp

\* the worker thread ends, or on_run_program returns to the event loop
RunnerEnd(t) ==
    /\ tpc[t] = "done"
    /\ tpc' = [tpc EXCEPT ![t] = "idle"]
    /\ UNCHANGED held
    /\ UNCHANGED notApp

InitApp ==
    /\ RunIdle
    /\ DrinkIdle
    /\ RestIdle

NextApp ==
    \/ \E t \in TestThreads : ClickTestDrink(t)
    \/ ClickRunProgram
    \/ \E t \in TestThreads : LoadPrograms(t)
    \/ \E t \in Runners : RunnerOpen(t)
    \/ \E t \in Runners : RunnerLoop(t)
    \/ \E t \in Runners : RunnerClose(t)
    \/ \E t \in Runners : RunnerEnd(t)

SpecApp == InitApp /\ [][NextApp]_vars

\* C13: at any time at most one run holds the transport open, whoever
\* called it (customer queue, developer test, teaching tool).
C13_AtMostOneHolder == Cardinality(held) <= 1



-----------------------------------------------------------------------------
(* app.py: CustomerPage and its order queue.

   page.order is the cart, page.active_orders the orders waiting for the
   robot, db the rows of the orders table (the id of a row is its index).
   qt is the thread running _run_active_queue_thread; qt.ended records, for
   every order the thread has taken off active_orders, how its make_drink
   call went ("not run" when it was never called).                          *)

notKiosk == <<runVars, drinkVars, appVars, dataVars, extraVars>>

MaxCart == 2

MaxOrders == 4

\* the methods of the class bound to the name KioskDB when MainApp is built:
\* the second definition of the class (line 145) replaces the first (line 29)
KioskDBMethods ==
    {"connect", "_init_schema", "log", "create_order", "create_or_get_customer",
     "set_status_in_progress", "set_status_completed", "set_status_failed",
     "fetch_orders", "fetch_active_orders"}

\* self.db.<name>(...) raises AttributeError when the class has no such method
CallRaises(name) == name \notin KioskDBMethods

Row(status, error_message) == [status |-> status, error_message |-> error_message]

\* KioskDB.create_order: INSERT ... 'pending'; returns cur.lastrowid
create_order(d) == Append(d, Row("pending", ""))

\* set_status(order_id, status, error_message) as the first class defines it
set_status(d, order_id, status, error_message) ==
    [d EXCEPT ![order_id] = Row(status, error_message)]

\* how make_drink(runner_key) can end: it returns, or lets an exception out
MakeDrinkOutcomes == {"completed", "FileNotFoundError", "JSONDecodeError", "SerialException"}

\* the message the inner handlers store with status 'failed'
FailureMessage(outcome) ==
    IF outcome = "FileNotFoundError"
    THEN "Program file not found: " \o outcome
    ELSE outcome

Ended(id, run) == [id |-> id, run |-> run]

\* CustomerPage.add_to_order
AddToOrder(juice_key) ==
    /\ ~page.is_running
    /\ Len(page.order) < MaxCart
    /\ page' = [page EXCEPT !.order = Append(@, juice_key)]
    /\ UNCHANGED <<db, qt>>
    /\ UNCHANGED notKiosk

\* CustomerPage.clear_order
ClearOrder ==
    /\ ~page.is_running
    /\ page.order # <<>>
    /\ page' = [page EXCEPT !.order = <<>>]
    /\ UNCHANGED <<db, qt>>
    /\ UNCHANGED notKiosk

\* the active_orders entries start_order appends for the cart, ids from first
NewActive(order, first) ==
    [k \in 1..Len(order) |-> [id |-> first + k, key |-> order[k]]]

\* the table after create_order for each of n cart entries
RECURSIVE CreateOrders(_, _)
CreateOrders(d, n) == IF n = 0 THEN d ELSE create_order(CreateOrders(d, n - 1))

\* CustomerPage.start_order
StartOrder ==
    /\ ~page.is_running
    /\ page.order # <<>>
    /\ Len(db) + Len(page.order) <= MaxOrders
    /\ db' = CreateOrders(db, Len(page.order))
    /\ page' = [order |-> <<>>,
                active_orders |-> page.active_orders \o NewActive(page.order, Len(db)),
                is_running |-> TRUE]
    /\ qt' = [qt EXCEPT !.pc = "loop", !.exc = ""]
    /\ UNCHANGED notKiosk

\* _run_active_queue_thread: the while test and one pass of its body for the
\* head order.  The first self.db.set_status call stands before the inner
\* try, so what it raises goes to the outer handler, which pops the order and
\* calls set_status again; what that raises leaves the thread through finally.
QueueThreadLoop ==
    /\ qt.pc = "loop"
    /\ IF page.active_orders = <<>>
       THEN /\ qt' = [qt EXCEPT !.pc = "finally"]
            /\ UNCHANGED <<page, db>>
       ELSE LET current == Head(page.active_orders)
                oid == current.id
            IN  IF CallRaises("set_status")
                THEN /\ page' = [page EXCEPT !.active_orders = Tail(@)]
                     /\ UNCHANGED db
                     /\ qt' = [pc |-> "finally", exc |-> "AttributeError",
                               ended |-> Append(qt.ended, Ended(oid, "not run"))]
                ELSE \E outcome \in MakeDrinkOutcomes :
                     /\ db' = IF outcome = "completed"
                              THEN set_status(db, oid, "completed", "")
                              ELSE set_status(db, oid, "failed", FailureMessage(outcome))
                     /\ page' = [page EXCEPT !.active_orders = Tail(@)]
                     /\ qt' = [qt EXCEPT !.ended = Append(@, Ended(oid, outcome))]
    /\ UNCHANGED notKiosk

\* _run_active_queue_thread: finally: self.is_running = False
QueueThreadFinally ==
    /\ qt.pc = "finally"
    /\ page' = [page EXCEPT !.is_running = FALSE]
    /\ qt' = [qt EXCEPT !.pc = "none"]
    /\ UNCHANGED db
    /\ UNCHANGED notKiosk

InitKiosk ==
    /\ RunIdle
    /\ DrinkIdle
    /\ RestIdle

NextKiosk ==
    \/ \E juice_key \in JuiceKeys : AddToOrder(juice_key)
    \/ ClearOrder
    \/ StartOrder
    \/ QueueThreadLoop
    \/ QueueThreadFinally

SpecKiosk == InitKiosk /\ [][NextKiosk]_vars

\* C15: every order the queue is done with is 'failed' with its cause on
\* record, or 'completed' and then its drink run completed; none is left
\* otherwise (no silent failure).
C15_EndedOrdersHaveVerdict ==
    \A k \in 1..Len(qt.ended) :
        LET e == qt.ended[k]
        IN  \/ db[e.id].status = "completed" /\ e.run = "completed"
            \/ /\ db[e.id].status = "failed"
               /\ db[e.id].error_message # ""
               /\ e.run # "completed"



-----------------------------------------------------------------------------
(* enhanced_models.py: Step and its validate() *)

X_MIN == -200

X_MAX == 200

Y_MIN == -200

Y_MAX == 200

Z_MIN == -50

Z_MAX == 250

\* Step(cmd, X, Y, Z, F, delay, DO0): every field holds a value
EStep(cmd, X, Y, Z, F, delay, DO0) ==
    [cmd |-> cmd, X |-> X, Y |-> Y, Z |-> Z, F |-> F, delay |-> delay, DO0 |-> DO0]

\* mutant: the limits themselves are refused
validate_strict(step) ==
    IF step.cmd \notin {"G00", "G01"} THEN FALSE
    ELSE IF ~(-200 < step.X /\ step.X < 200 /\ -200 < step.Y /\ step.Y < 200) THEN FALSE
    ELSE IF ~(-50 < step.Z /\ step.Z < 250) THEN FALSE
    ELSE IF ~(0 < step.DO0 /\ step.DO0 < 180) THEN FALSE
    ELSE IF step.F <= 0 THEN FALSE
    ELSE TRUE

\* Step.validate
validate(step) ==
    IF step.cmd \notin {"G00", "G01"} THEN FALSE
    ELSE IF ~(-200 <= step.X /\ step.X <= 200 /\ -200 <= step.Y /\ step.Y <= 200) THEN FALSE
    ELSE IF ~(-50 <= step.Z /\ step.Z <= 250) THEN FALSE
    ELSE IF ~(0 <= step.DO0 /\ step.DO0 <= 180) THEN FALSE
    ELSE IF step.F <= 0 THEN FALSE
    ELSE TRUE

\* the values validate() is tried on: each limit, and its neighbour outside
ValCmds == {"G00", "G01", "G02"}

ValXs == {X_MIN - 1, X_MIN, 0, X_MAX, X_MAX + 1}

ValYs == {Y_MIN - 1, Y_MIN, Y_MAX, Y_MAX + 1}

ValZs == {Z_MIN - 1, Z_MIN, Z_MAX, Z_MAX + 1}

ValAngles == {-1, 0, 180, 181}

ValFeeds == {-1, 0, 1}

ValSteps ==
    { EStep(c, x, y, z, f, DEFAULT_DELAY_MS, a) :
        c \in ValCmds, x \in ValXs, y \in ValYs, z \in ValZs, f \in ValFeeds, a \in ValAngles }

notVal == <<runVars, drinkVars, appVars, kioskVars, progVars, rtVars, extraVars>>

InitValidate ==
    /\ RunIdle
    /\ ExtraIdle
    /\ DrinkIdle
    /\ AppIdle
    /\ KioskIdle
    /\ ProgIdle
    /\ RtIdle
    /\ \E step \in ValSteps : arg = Some(step)
    /\ ret = None

\* ret = arg.validate()
Validate ==
    /\ arg # None
    /\ ret = None
    /\ ret' = Some(validate(arg[1]))
    /\ UNCHANGED arg
    /\ UNCHANGED notVal

NextValidate == Validate

SpecValidate == InitValidate /\ [][NextValidate]_vars

\* what the limits of config.py and the command set call structurally invalid
StructurallyInvalid(step) ==
    \/ step.cmd \notin {"G00", "G01"}
    \/ step.X < X_MIN \/ step.X > X_MAX
    \/ step.Y < Y_MIN \/ step.Y > Y_MAX
    \/ step.Z < Z_MIN \/ step.Z > Z_MAX
    \/ step.DO0 < 0 \/ step.DO0 > 180
    \/ step.F <= 0

\* C16: validate() returns false if and only if the command is not G00/G01,
\* or X or Y is outside [-200, 200], or Z outside [-50, 250], or the angle
\* outside [0, 180], or the feed rate is <= 0.
C16_ValidateRejectsExactlyInvalid ==
    ret # None => (ret[1] = FALSE <=> StructurallyInvalid(arg[1]))

\* a step with every coordinate and the angle on a limit, refused for its
\* feed rate of 0
C16_Witness ==
    /\ ret = Some(FALSE)
    /\ arg[1].cmd = "G00" /\ arg[1].F = 0
    /\ arg[1].X = X_MAX /\ arg[1].Y = Y_MIN /\ arg[1].Z = Z_MAX /\ arg[1].DO0 = 180

-----------------------------------------------------------------------------
(* enhanced_models.py: Program and its methods.

   Every method is an operator from the Program before the call (and the
   clock reading t of datetime.now()) to the Program after it and what the
   caller gets: "None" for a plain return, else the exception raised.       *)

MaxESteps == 2

MaxClock == 1

Outcome(p, r) == [prog |-> p, ret |-> r]

\* list.insert(index, step): a negative index counts from the end, and an
\* index past either end is clamped
ListInsert(steps, index, step) ==
    LET n == Len(steps)
        at == IF index < 0 THEN (IF n + index < 0 THEN 0 ELSE n + index)
              ELSE (IF index > n THEN n ELSE index)
    IN  SubSeq(steps, 1, at) \o <<step>> \o SubSeq(steps, at + 1, n)

\* list.pop(index) for 0 <= index < len
ListPop(steps, index) ==
    SubSeq(steps, 1, index) \o SubSeq(steps, index + 2, Len(steps))

\* Program.add_step
add_step(p, step, t) ==
    IF validate(step)
    THEN Outcome([p EXCEPT !.steps = Append(@, step), !.modified_at = t], "None")
    ELSE Outcome(p, "ValueError")

\* Program.insert_step
insert_step(p, index, step, t) ==
    IF validate(step)
    THEN Outcome([p EXCEPT !.steps = ListInsert(@, index, step), !.modified_at = t], "None")
    ELSE Outcome(p, "ValueError")

\* Program.remove_step
remove_step(p, index, t) ==
    IF 0 <= index /\ index < Len(p.steps)
    THEN Outcome([p EXCEPT !.steps = ListPop(@, index), !.modified_at = t], "None")
    ELSE Outcome(p, "None")

\* mutant: the step is replaced but modified_at keeps its value
update_step_stale(p, index, step, t) ==
    IF 0 <= index /\ index < Len(p.steps) /\ validate(step)
    THEN Outcome([p EXCEPT !.steps[index + 1] = step], "None")
    ELSE Outcome(p, "None")

\* Program.update_step
update_step(p, index, step, t) ==
    IF 0 <= index /\ index < Len(p.steps) /\ validate(step)
    THEN Outcome([p EXCEPT !.steps[index + 1] = step, !.modified_at = t], "None")
    ELSE Outcome(p, "None")

\* Program.merge
merge(p, other, t) ==
    Outcome([p EXCEPT !.steps = @ \o other.steps, !.modified_at = t], "None")

-----------------------------------------------------------------------------
(* enhanced_models.py: the dict forms and file I/O of Step and Program *)

\* json.dump / json.load of an int, and of an isoformat() timestamp
JInt(v) == ToString(v)

JParseInt(t) == CHOOSE v \in JsonNumbers : JInt(v) = t

JTime(t) == JStr("T" \o ToString(t))

JParseTime(tok) == CHOOSE t \in 0..(MaxClock + 1) : JTime(t) = tok

\* Step.to_dict (asdict) as json.dump writes it
EStep_to_dict(step) ==
    [cmd   |-> JStr(step.cmd),
     X     |-> JNum(step.X),
     Y     |-> JNum(step.Y),
     Z     |-> JNum(step.Z),
     F     |-> JNum(step.F),
     delay |-> JNum(step.delay),
     DO0   |-> JInt(step.DO0)]

EStepFields == {"cmd", "X", "Y", "Z", "F", "delay", "DO0"}

\* cls(**data) raises TypeError on a key that is no field of Step
EStep_from_dict_raises(data) == ~(DOMAIN data \subseteq EStepFields)

\* Step.from_dict: cls(**data), a missing key takes the field's default
EStep_from_dict(data) ==
    EStep(IF "cmd" \in DOMAIN data THEN JParseStr(data.cmd) ELSE "G01",
          IF "X" \in DOMAIN data THEN JParseNum(data.X) ELSE 0,
          IF "Y" \in DOMAIN data THEN JParseNum(data.Y) ELSE 0,
          IF "Z" \in DOMAIN data THEN JParseNum(data.Z) ELSE 0,
          IF "F" \in DOMAIN data THEN JParseNum(data.F) ELSE 20,
          IF "delay" \in DOMAIN data THEN JParseNum(data.delay) ELSE 500,
          IF "DO0" \in DOMAIN data THEN JParseInt(data.DO0) ELSE 90)

\* a document of the enhanced model: a JSON object with the metadata and
\* the steps, or (old format) a bare JSON array of steps
EDoc(kind, name, description, version, created_at, modified_at, steps) ==
    [kind |-> kind, name |-> name, description |-> description, version |-> version,
     created_at |-> created_at, modified_at |-> modified_at, steps |-> steps]

EJsonArray(steps) == EDoc("array", JNull, JNull, JNull, JNull, JNull, steps)

EFileMissing == EDoc("missing", JNull, JNull, JNull, JNull, JNull, <<>>)

\* the paths a Program is saved to and loaded from
EDirs == {"programs/", ""}

EPaths == {"programs/recipe.json", "recipe.json"}

\* os.path.dirname(filepath), and os.path.basename(filepath).replace('.json', '')
DirName(path) == CHOOSE d \in EDirs : \E st \in JsonStrings : path = d \o st \o ".json"

Stem(path) == CHOOSE st \in JsonStrings : \E d \in EDirs : path = d \o st \o ".json"

\* Program.save raises when os.makedirs is given the empty dirname
EProgram_save_raises(path) == IF DirName(path) = "" THEN "FileNotFoundError" ELSE ""

\* Program.save: the object after it (modified_at is set before the dump)
EProgram_save(p, t) == [p EXCEPT !.modified_at = t]

\* Program.save: the document json.dump writes
EProgram_dump(p, t) ==
    EDoc("object", JStr(p.name), JStr(p.description), JStr(p.version),
         JTime(p.created_at), JTime(t),
         [n \in 1..Len(p.steps) |-> EStep_to_dict(p.steps[n])])

\* the exception Program.load raises on a document ("" = none)
EProgram_load_raises(content) ==
    IF content.kind = "missing" THEN "FileNotFoundError"
    ELSE IF content.kind = "bad" THEN "JSONDecodeError"
    ELSE IF \E n \in 1..Len(content.steps) : EStep_from_dict_raises(content.steps[n])
         THEN "TypeError"
    ELSE ""

\* Program.load: the Program it returns, t being the clock reading
EProgram_load(path, content, t) ==
    LET steps == [n \in 1..Len(content.steps) |-> EStep_from_dict(content.steps[n])]
    IN  IF content.kind = "array"
        THEN EProgram(Stem(path), "", steps, "1.0", t, t)
        ELSE EProgram(IF content.name = JNull THEN "Untitled" ELSE JParseStr(content.name),
                      IF content.description = JNull THEN "" ELSE JParseStr(content.description),
                      steps,
                      IF content.version = JNull THEN "1.0" ELSE JParseStr(content.version),
                      IF content.created_at = JNull THEN t ELSE JParseTime(content.created_at),
                      IF content.modified_at = JNull THEN t ELSE JParseTime(content.modified_at))

-----------------------------------------------------------------------------
(* A Program object under a sequence of method calls *)

\* two steps inside the limits, and one outside (command and X)
StepA == EStep("G01", 0, 0, 0, 20, 500, 90)

StepB == EStep("G00", 10, 0, 0, 20, 500, 90)

StepBad == EStep("G02", 500, 0, 0, 20, 500, 90)

EStepValues == {StepA, StepB, StepBad}

\* the Programs handed to merge: Program(steps=[...]) checks nothing
OtherPrograms ==
    { EProgram("other", "", q, "1.0", 0, 0) : q \in SeqsUpTo(EStepValues, 1) }

\* the documents handed to load: what save wrote for a one-step Program or
\* an editor left behind, an old-format array, or no file
LoadDocs ==
    { EProgram_dump(EProgram("recipe", "", q, "1.0", 0, 0), 0) : q \in SeqsUpTo(EStepValues, 1) }
    \cup {EJsonArray(<<EStep_to_dict(StepB)>>), EFileMissing}

notProg == <<runVars, drinkVars, appVars, kioskVars, valVars, rtVars, extraVars>>

Called(op, index, steps, r) ==
    [op |-> op, index |-> index, steps |-> steps, at |-> now, before |-> eprog, ret |-> r]

InitProgram ==
    /\ RunIdle
    /\ ExtraIdle
    /\ DrinkIdle
    /\ AppIdle
    /\ KioskIdle
    /\ ValIdle
    /\ RtIdle
    /\ ProgIdle

\* time passes between two calls
Tick ==
    /\ now < MaxClock
    /\ now' = now + 1
    /\ UNCHANGED <<eprog, call>>
    /\ UNCHANGED notProg

\* eprog.add_step(step)
AddStep(step) ==
    /\ Len(eprog.steps) < MaxESteps
    /\ LET r == add_step(eprog, step, now)
       IN  /\ eprog' = r.prog
           /\ call' = Called("add_step", 0, <<step>>, r.ret)
    /\ UNCHANGED now
    /\ UNCHANGED notProg

\* eprog.insert_step(index, step)
InsertStep(index, step) ==
    /\ Len(eprog.steps) < MaxESteps
    /\ LET r == insert_step(eprog, index, step, now)
       IN  /\ eprog' = r.prog
           /\ call' = Called("insert_step", index, <<step>>, r.ret)
    /\ UNCHANGED now
    /\ UNCHANGED notProg

\* eprog.remove_step(index)
RemoveStep(index) ==
    /\ LET r == remove_step(eprog, index, now)
       IN  /\ eprog' = r.prog
           /\ call' = Called("remove_step", index, <<>>, r.ret)
    /\ UNCHANGED now
    /\ UNCHANGED notProg

\* eprog.update_step(index, step)
UpdateStep(index, step) ==
    /\ LET r == update_step(eprog, index, step, now)
       IN  /\ eprog' = r.prog
           /\ call' = Called("update_step", index, <<step>>, r.ret)
    /\ UNCHANGED now
    /\ UNCHANGED notProg

\* eprog.merge(other)
Merge(other) ==
    /\ Len(eprog.steps) + Len(other.steps) <= MaxESteps
    /\ LET r == merge(eprog, other, now)
       IN  /\ eprog' = r.prog
           /\ call' = Called("merge", 0, other.steps, r.ret)
    /\ UNCHANGED now
    /\ UNCHANGED notProg

\* eprog = Program.load(path)
Load(path, content) ==
    /\ LET raised == EProgram_load_raises(content)
       IN  /\ eprog' = IF raised = "" THEN EProgram_load(path, content, now) ELSE eprog
           /\ call' = Called("load", 0, <<>>, IF raised = "" THEN "None" ELSE raised)
    /\ UNCHANGED now
    /\ UNCHANGED notProg

\* the indexes tried: every position, and one step outside on either side
Indexes == -1..MaxESteps

NextProgram ==
    \/ Tick
    \/ \E step \in EStepValues : AddStep(step)
    \/ \E index \in Indexes, step \in EStepValues : InsertStep(index, step)
    \/ \E index \in Indexes : RemoveStep(index)
    \/ \E index \in Indexes, step \in EStepValues : UpdateStep(index, step)
    \/ \E other \in OtherPrograms : Merge(other)
    \/ \E path \in EPaths, content \in LoadDocs : Load(path, content)

SpecProgram == InitProgram /\ [][NextProgram]_vars

Mutators == {"add_step", "insert_step", "remove_step", "update_step"}

TakesStep == {"add_step", "insert_step", "update_step"}

TakesIndex == {"remove_step", "update_step"}

\* the last call was a mutator given a step that breaks the limits
Rejected == call.op \in TakesStep /\ StructurallyInvalid(call.steps[1])

\* the last call was a mutator given a step inside the limits (if it takes
\* one) and the index of an existing step (if it works on one)
Applied ==
    /\ call.op \in Mutators
    /\ call.op \in TakesStep => ~StructurallyInvalid(call.steps[1])
    /\ call.op \in TakesIndex => (0 <= call.index /\ call.index < Len(call.before.steps))

\* C17: after any sequence of Program operations every step in the Program
\* passes validation.
C17_AllStepsValid ==
    \A n \in 1..Len(eprog.steps) : ~StructurallyInvalid(eprog.steps[n])

\* C18: an applied add/insert/remove/update sets modified_at to the time of
\* the call; a rejected one (step fails validation) leaves the step list and
\* modified_at as they were; the step list never changes without the refresh.
C18_MutatorsRefreshModified ==
    /\ Applied => eprog.modified_at = call.at
    /\ Rejected => (eprog.steps = call.before.steps
                    /\ eprog.modified_at = call.before.modified_at)
    /\ (call.op \in Mutators /\ eprog.steps # call.before.steps) => eprog.modified_at = call.at

\* update_step replaced a step after the clock had moved on
C18_Witness ==
    /\ call.op = "update_step"
    /\ Applied
    /\ call.before.modified_at < call.at
    /\ eprog.steps # call.before.steps

\* C19: a mutator call that did not go through (invalid step, or an index
\* out of range) reports so: it does not return as a successful call does.
C19_FailureIsReported ==
    (call.op \in Mutators /\ ~Applied) => call.ret # "None"

-----------------------------------------------------------------------------
(* save, then load what was saved: models.Program (mrt) and the enhanced
   Program (ert).  mem is the Program saved, doc the document written, back
   the Program that load returns; mrt.heap holds the Step objects that the
   references of a models.Program point to.                                  *)

MaxRtSteps == 2

\* Steps of a models.Program: axes and angle present or absent
MStepValues ==
    DrinkSteps
    \cup { Step("G00", Some(0), Some(10), Some(5), DEFAULT_FEED, DEFAULT_DELAY_MS, Some(90)),
           Step("G02", None, None, None, 5, 0, None) }

RtNames == {"recipe", "unnamed"}

notRt == <<runVars, drinkVars, appVars, kioskVars, valVars, progVars, extraVars>>

RoundTrip(pc_, mem, h, doc, back) ==
    [pc |-> pc_, mem |-> mem, heap |-> h, doc |-> doc, back |-> back]

InitRoundTrip ==
    /\ RunIdle
    /\ ExtraIdle
    /\ DrinkIdle
    /\ AppIdle
    /\ KioskIdle
    /\ ValIdle
    /\ ProgIdle
    /\ \E name \in RtNames, steps \in SeqsUpTo(MStepValues, MaxRtSteps) :
          mrt = RoundTrip("built", ProgramObj(name, [n \in 1..Len(steps) |-> n]),
                          steps, <<>>, <<>>)
    /\ \E name \in RtNames, steps \in SeqsUpTo(EStepValues, MaxRtSteps) :
          ert = RoundTrip("built", EProgram(name, "", steps, "1.0", 0, 0),
                          <<>>, <<>>, <<>>)

\* models.py: program.save(path)
MSave ==
    /\ mrt.pc = "built"
    /\ mrt' = [mrt EXCEPT !.pc = "saved", !.doc = Program_to_dict(mrt.heap, mrt.mem)]
    /\ UNCHANGED ert
    /\ UNCHANGED notRt

\* models.py: Program.load(path) of the document saved
MLoad ==
    /\ mrt.pc = "saved"
    /\ Program_load_raises(mrt.doc) = ""
    /\ mrt' = [mrt EXCEPT !.pc = "loaded",
                          !.back = Program_load(mrt.heap, mrt.doc),
                          !.heap = Program_load_heap(mrt.heap, mrt.doc)]
    /\ UNCHANGED ert
    /\ UNCHANGED notRt

\* enhanced_models.py: program.save(filepath) at clock reading t
ESave(path, t) ==
    /\ ert.pc = "built"
    /\ IF EProgram_save_raises(path) # ""
       THEN ert' = [ert EXCEPT !.pc = "save raised"]
       ELSE ert' = [ert EXCEPT !.pc = "saved",
                               !.mem = EProgram_save(ert.mem, t),
                               !.doc = EProgram_dump(ert.mem, t)]
    /\ UNCHANGED mrt
    /\ UNCHANGED notRt

\* enhanced_models.py: Program.load(filepath) of the document saved
ELoad(path, t) ==
    /\ ert.pc = "saved"
    /\ EProgram_load_raises(ert.doc) = ""
    /\ ert' = [ert EXCEPT !.pc = "loaded", !.back = EProgram_load(path, ert.doc, t)]
    /\ UNCHANGED mrt
    /\ UNCHANGED notRt

NextRoundTrip ==
    \/ MSave
    \/ MLoad
    \/ \E path \in EPaths, t \in 0..MaxClock : ESave(path, t)
    \/ \E path \in EPaths, t \in 0..MaxClock : ELoad(path, t)

SpecRoundTrip == InitRoundTrip /\ [][NextRoundTrip]_vars

\* C20: a Program saved and loaded back has the same name and the same
\* step sequence (length, order, every field, absent axes and angle still
\* absent); of the metadata only modified_at may differ from the original.
C20_SaveLoadRoundTrip ==
    /\ mrt.pc = "loaded" =>
          /\ mrt.back.name = mrt.mem.name
          /\ Deref(mrt.heap, mrt.back.steps) = Deref(mrt.heap, mrt.mem.steps)
    /\ ert.pc = "loaded" =>
          /\ ert.back.name = ert.mem.name
          /\ ert.back.steps = ert.mem.steps
          /\ ert.back.description = ert.mem.description
          /\ ert.back.version = ert.mem.version
          /\ ert.back.created_at = ert.mem.created_at

\* both kinds of Program came back, the models.Program with a step whose
\* axes are absent and one whose angle is absent
C20_Witness ==
    /\ mrt.pc = "loaded"
    /\ ert.pc = "loaded"
    /\ Len(mrt.back.steps) = 2
    /\ mrt.heap[mrt.back.steps[1]].x = None
    /\ mrt.heap[mrt.back.steps[2]].do0 = None
    /\ Len(ert.back.steps) = 2

-----------------------------------------------------------------------------
(* Loading an old-format file: a bare JSON array of step objects.

   leg.msteps are the steps written in the array given to models.Program.load
   (the loader of make_drink and of the teaching tool), leg.esteps those in
   the array given to the enhanced Program.load; each loader ends "done",
   with the exception it raised (m/eexc) or the Program it returned.         *)

MaxLegacySteps == 3

notLeg == <<runVars, drinkVars, appVars, kioskVars, dataVars, qmVars>>

InitLegacy ==
    /\ RunIdle
    /\ DrinkIdle
    /\ AppIdle
    /\ KioskIdle
    /\ DataIdle
    /\ QmIdle
    /\ \E path \in EPaths,
          msteps \in SeqsUpTo(DrinkSteps, MaxLegacySteps),
          esteps \in SeqsUpTo({StepA, StepB}, MaxLegacySteps) :
          leg = [NoLegacy EXCEPT !.path = path, !.msteps = msteps, !.esteps = esteps,
                                 !.mpc = "file", !.epc = "file"]

\* the array documents on disk
LegacyMDoc == JsonArray([n \in 1..Len(leg.msteps) |-> Step_to_dict(leg.msteps[n])])

LegacyEDoc == EJsonArray([n \in 1..Len(leg.esteps) |-> EStep_to_dict(leg.esteps[n])])

\* models.py: Program.load(path)
MLoadLegacy ==
    /\ leg.mpc = "file"
    /\ LET raised == Program_load_raises(LegacyMDoc)
       IN  IF raised # ""
           THEN leg' = [leg EXCEPT !.mpc = "done", !.mexc = raised]
           ELSE leg' = [leg EXCEPT !.mpc = "done",
                                   !.mback = Program_load(<<>>, LegacyMDoc),
                                   !.mheap = Program_load_heap(<<>>, LegacyMDoc)]
    /\ UNCHANGED notLeg

\* enhanced_models.py: Program.load(filepath)
ELoadLegacy ==
    /\ leg.epc = "file"
    /\ LET raised == EProgram_load_raises(LegacyEDoc)
       IN  IF raised # ""
           THEN leg' = [leg EXCEPT !.epc = "done", !.eexc = raised]
           ELSE leg' = [leg EXCEPT !.epc = "done",
                                   !.eback = EProgram_load(leg.path, LegacyEDoc, 0)]
    /\ UNCHANGED notLeg

NextLegacy ==
    \/ MLoadLegacy
    \/ ELoadLegacy

SpecLegacy == InitLegacy /\ [][NextLegacy]_vars

\* C21: loading a bare array of n step objects succeeds and gives a Program
\* with those n steps in order and a name derived from the file name, with
\* the loader of the composer and runner as with the enhanced model.
C21_LegacyLoadSucceeds ==
    /\ leg.mpc = "done" =>
          /\ leg.mexc = ""
          /\ leg.mback.name = Stem(leg.path)
          /\ Deref(leg.mheap, leg.mback.steps) = leg.msteps
    /\ leg.epc = "done" =>
          /\ leg.eexc = ""
          /\ leg.eback.name = Stem(leg.path)
          /\ leg.eback.steps = leg.esteps

-----------------------------------------------------------------------------
(* C22..C24: send_command and run_program at their edges *)

\* where in the history the port began to report not-open (0 = never)
DropAt ==
    IF Count("drop") = 0 THEN 0
    ELSE CHOOSE n \in 1..Len(log) : log[n].ev = "drop"

\* the send_command calls made on the port after that
CallsOnClosedPort ==
    { n \in 1..Len(log) : DropAt # 0 /\ n > DropAt /\ log[n].ev = "call" }

\* C22: send_command on a port that reports not-open raises and writes
\* nothing: after the call there is no write, no settle wait and no read,
\* and the run is on its way out with that error, the port being closed by
\* the finally clause as after any failed send.
C22_NotOpenSendWritesNothing ==
    \A n \in CallsOnClosedPort :
        /\ \A m \in n + 1 .. Len(log) : log[m].ev = "close"
        /\ pc \in {"finally", "done"}
        /\ exc = "RuntimeError"
        /\ pc = "done" => (result = Raised("RuntimeError") /\ log[Len(log)].ev = "close")

\* a frame went out, then the port reported not-open, the next send raised
\* and the run ended with steps left
C22_Witness ==
    /\ pc = "done"
    /\ CallsOnClosedPort # {}
    /\ Count("write") >= 1
    /\ i < Len(prog)

\* the step has finished a send_command call that returned no bytes
EmptyReplyNow ==
    /\ Count("read")' = Count("read") + 1
    /\ reply' = ""

\* C23: a read that times out with no bytes is a normal empty reply: the
\* send_command call returns without error, the frame has been written once
\* and is not written again, and the run goes on to the next frame or to the
\* delay of the step, as it does after a reply.
C23_EmptyReplyIsNormal ==
    [][ EmptyReplyNow =>
          /\ exc' = ""
          /\ pc' = (IF pc = "do0" THEN "move" ELSE "delay")
          /\ Count("write")' = Count("write") + 1
          /\ Count("call")' = Count("call") + 1
          /\ IsPrefix(Frames("write")', FramesUpTo(Len(prog)))
          /\ i' = i ]_vars

\* a run of two or more frames completed with the last reply empty
C23_Witness ==
    /\ pc = "done"
    /\ result = Returned
    /\ reply = ""
    /\ Count("read") >= 2
    /\ Count("read") = Len(FramesUpTo(Len(prog)))

\* C24: run_program does not change the Program it is given: no step of the
\* run, whether it ends by returning or by an exception, alters the step
\* sequence or a field of a step.
C24_RunnerLeavesProgramAlone == [][prog' = prog]_vars

\* a run of a full-length program failed after sleeping for a step
C24_Witness ==
    /\ pc = "done"
    /\ result.kind = "raised"
    /\ Len(prog) = MaxSteps
    /\ Count("sleep") >= 1

-----------------------------------------------------------------------------
(* queue_manager.py: QueueManager.

   An order is its id; odb[id] is its status in the database.  The public
   methods are called from the GUI thread, one at a time; the worker thread
   runs _process_queue.  A "with self.lock" block is one step, the
   statements outside a lock are steps of their own.  qw.pc is the position
   of the worker ("none": no live thread); qw.events is the history of
   dequeue, start and cancel events.                                        *)

MaxQueueOrders == 3

notQm == <<runVars, drinkVars, appVars, kioskVars, dataVars, legVars>>

QEvent(ev, id) == [ev |-> ev, id |-> id]

\* Database.update_order_status
update_order_status(d, order_id, status) == [d EXCEPT ![order_id] = status]

\* what the on_order_start callback does with the order it is given: there is
\* none, it returns with the order still being made, it returns after
\* marking the order completed, or it raises
CallbackOutcomes == {"unset", "returns", "completes", "raises"}

InitQueue ==
    /\ RunIdle
    /\ DrinkIdle
    /\ AppIdle
    /\ KioskIdle
    /\ DataIdle
    /\ LegIdle
    /\ QmIdle

\* QueueManager.add_order
AddOrder ==
    /\ Len(odb) < MaxQueueOrders
    /\ odb' = Append(odb, "pending")
    /\ qm' = [qm EXCEPT !.queue = Append(@, Len(odb) + 1)]
    /\ UNCHANGED qw
    /\ UNCHANGED notQm

\* QueueManager.remove_order(order_id); qw.removed keeps the call and what it
\* returned
RemoveOrder(order_id) ==
    /\ order_id \in 1..Len(odb)
    /\ IF /\ \E n \in 1..Len(qm.queue) : qm.queue[n] = order_id
          /\ qm.current_order # Some(order_id)
       THEN /\ qm' = [qm EXCEPT !.queue = SelectSeq(@, LAMBDA o : o # order_id)]
            /\ odb' = update_order_status(odb, order_id, "cancelled")
            /\ qw' = [qw EXCEPT !.events = Append(@, QEvent("cancel", order_id)),
                                !.removed = <<order_id, TRUE>>]
       ELSE /\ qw' = [qw EXCEPT !.removed = <<order_id, FALSE>>]
            /\ UNCHANGED <<qm, odb>>
    /\ UNCHANGED notQm

\* the cancel events clear_queue leaves, one per queued order
CancelAll(queue) == [n \in 1..Len(queue) |-> QEvent("cancel", queue[n])]

\* QueueManager.clear_queue
ClearQueue ==
    /\ qm.queue # <<>>
    /\ odb' = [id \in 1..Len(odb) |->
                 IF \E n \in 1..Len(qm.queue) : qm.queue[n] = id THEN "cancelled" ELSE odb[id]]
    /\ qw' = [qw EXCEPT !.events = @ \o CancelAll(qm.queue)]
    /\ qm' = [qm EXCEPT !.queue = <<>>]
    /\ UNCHANGED notQm

\* QueueManager.pause_processing
PauseProcessing ==
    /\ ~qm.is_paused
    /\ qm' = [qm EXCEPT !.is_paused = TRUE]
    /\ UNCHANGED <<odb, qw>>
    /\ UNCHANGED notQm

\* QueueManager.start_processing: a new thread unless one is alive
StartProcessing ==
    /\ qw.pc = "none"
    /\ qw' = [qw EXCEPT !.pc = "begin"]
    /\ UNCHANGED <<qm, odb>>
    /\ UNCHANGED notQm

\* QueueManager.resume_processing
ResumeProcessing ==
    /\ qm.is_paused
    /\ qm' = [qm EXCEPT !.is_paused = FALSE]
    /\ qw' = [qw EXCEPT
                !.pc = IF ~qm.is_processing /\ Len(qm.queue) > 0 /\ qw.pc = "none"
                       THEN "begin" ELSE @]
    /\ UNCHANGED odb
    /\ UNCHANGED notQm

\* QueueManager.mark_order_completed / mark_order_failed, called by whoever
\* makes the drink, for an order that is being made
MarkOrderDone(order_id, status) ==
    /\ order_id \in 1..Len(odb)
    /\ odb[order_id] = "in_progress"
    /\ odb' = update_order_status(odb, order_id, status)
    /\ UNCHANGED <<qm, qw>>
    /\ UNCHANGED notQm

\* _process_queue: self.is_processing = True
WorkerBegin ==
    /\ qw.pc = "begin"
    /\ qm' = [qm EXCEPT !.is_processing = TRUE]
    /\ qw' = [qw EXCEPT !.pc = "check"]
    /\ UNCHANGED odb
    /\ UNCHANGED notQm

\* _process_queue: if self.is_paused: wait(1); continue
WorkerCheckPause ==
    /\ qw.pc = "check"
    /\ ~qm.is_paused
    /\ qw' = [qw EXCEPT !.pc = "dequeue"]
    /\ UNCHANGED <<qm, odb>>
    /\ UNCHANGED notQm

\* mutant: the head of the queue is taken as current order but left queued
WorkerDequeuePeek ==
    /\ qw.pc = "dequeue"
    /\ IF Len(qm.queue) = 0
       THEN /\ qm' = [qm EXCEPT !.current_order = None, !.is_processing = FALSE]
            /\ qw' = [qw EXCEPT !.pc = "none"]
       ELSE /\ qm' = [qm EXCEPT !.current_order = Some(Head(qm.queue))]
            /\ qw' = [qw EXCEPT !.pc = "start",
                                !.events = Append(@, QEvent("dequeue", Head(qm.queue)))]
    /\ UNCHANGED odb
    /\ UNCHANGED notQm

\* _process_queue: with self.lock: leave if the queue is empty, else pop(0)
WorkerDequeue ==
    /\ qw.pc = "dequeue"
    /\ IF Len(qm.queue) = 0
       THEN /\ qm' = [qm EXCEPT !.current_order = None, !.is_processing = FALSE]
            /\ qw' = [qw EXCEPT !.pc = "none"]
       ELSE /\ qm' = [qm EXCEPT !.current_order = Some(Head(qm.queue)), !.queue = Tail(@)]
            /\ qw' = [qw EXCEPT !.pc = "start",
                                !.events = Append(@, QEvent("dequeue", Head(qm.queue)))]
    /\ UNCHANGED odb
    /\ UNCHANGED notQm

\* _process_queue: the try block: status in_progress, then the callback;
\* an exception marks the order failed; then the loop goes round at once
WorkerStart ==
    /\ qw.pc = "start"
    /\ \E cb \in CallbackOutcomes :
          odb' = update_order_status(odb, qm.current_order[1],
                    IF cb = "raises" THEN "failed"
                    ELSE IF cb = "completes" THEN "completed"
                    ELSE "in_progress")
    /\ qw' = [qw EXCEPT !.pc = "check",
                        !.events = Append(@, QEvent("start", qm.current_order[1]))]
    /\ UNCHANGED qm
    /\ UNCHANGED notQm

NextQueue ==
    \/ AddOrder
    \/ \E order_id \in 1..MaxQueueOrders : RemoveOrder(order_id)
    \/ ClearQueue
    \/ PauseProcessing
    \/ StartProcessing
    \/ ResumeProcessing
    \/ \E order_id \in 1..MaxQueueOrders, status \in {"completed", "failed"} :
          MarkOrderDone(order_id, status)
    \/ WorkerBegin
    \/ WorkerCheckPause
    \/ WorkerDequeue
    \/ WorkerStart

SpecQueue == InitQueue /\ [][NextQueue]_vars

\* the worker thread is scheduled; nobody is obliged to call a method
WorkerRuns == WorkerBegin \/ WorkerCheckPause \/ WorkerDequeue \/ WorkerStart

SpecQueueFair == SpecQueue /\ WF_vars(WorkerRuns)

-----------------------------------------------------------------------------
(* C25..C28: the QueueManager worker *)

OrderIds == 1..MaxQueueOrders

InProgress == {id \in 1..Len(odb) : odb[id] = "in_progress"}

Queued(id) == \E n \in 1..Len(qm.queue) : qm.queue[n] = id

\* the positions of the history at which event ev of order id stands
Happened(ev, id) == {n \in 1..Len(qw.events) : qw.events[n] = QEvent(ev, id)}

Dequeues == SelectSeq(qw.events, LAMBDA e : e.ev = "dequeue")

\* C25: the worker has one order in hand at a time: no two orders have the
\* status in_progress together.
C25_OneOrderInProgress == Cardinality(InProgress) <= 1

\* C26: while processing is paused (pause_processing has returned and
\* resume_processing has not been called) the worker dequeues no order.
C26_NoDequeueWhilePaused == [][qm.is_paused => Dequeues' = Dequeues]_vars

\* C27: an order that is in the queue while processing is not paused is in
\* the end started by the worker, unless it is cancelled or processing is
\* paused first.
C27_AddedOrderIsStarted ==
    \A id \in OrderIds :
        (Queued(id) /\ ~qm.is_paused)
            ~> (Happened("start", id) # {} \/ Happened("cancel", id) # {} \/ qm.is_paused)

\* C28: under every interleaving of add_order, remove_order, clear_queue and
\* the worker, an order is dequeued at most once, is never both queued and the
\* current order, and is never both cancelled and dequeued or started (so a
\* cancelled order is not started later, and an order in hand is not
\* cancelled); remove_order of an order the worker has taken returns False.
C28_QueueIsConsistent ==
    \A id \in OrderIds :
        /\ Cardinality(Happened("dequeue", id)) <= 1
        /\ Cardinality({n \in 1..Len(qm.queue) : qm.queue[n] = id}) <= 1
        /\ ~(Queued(id) /\ qm.current_order = Some(id))
        /\ Happened("cancel", id) # {}
              => /\ Happened("dequeue", id) = {}
                 /\ Happened("start", id) = {}
                 /\ odb[id] = "cancelled"
        /\ (qw.removed = <<id, TRUE>>) => Happened("dequeue", id) = {}

\* an order was cancelled, another was started and remove_order was then
\* called for it, and a third waits behind the order in hand
C28_Witness ==
    /\ \E id \in OrderIds : Happened("cancel", id) # {}
    /\ \E id \in OrderIds :
          /\ Happened("start", id) # {}
          /\ qm.current_order = Some(id)
          /\ odb[id] = "in_progress"
          /\ qw.removed = <<id, FALSE>>
    /\ qm.queue # <<>>

-----------------------------------------------------------------------------
(* C29: the customer page's queue thread *)

\* the queue thread, once started, is scheduled until it ends; nobody is
\* obliged to press a button
SpecKioskFair == SpecKiosk /\ WF_vars(QueueThreadLoop) /\ WF_vars(QueueThreadFinally)

Active(id) == \E n \in 1..Len(page.active_orders) : page.active_orders[n].id = id

Terminal(id) == id \in 1..Len(db) /\ db[id].status \in {"completed", "failed"}

\* C29: every order placed in the end leaves the active list with the status
\* completed or failed, whatever happens to the orders before it, and when
\* the queue thread has ended is_running is false.
C29_EveryOrderEnds ==
    /\ \A id \in 1..MaxOrders :
          (id \in 1..Len(db)) ~> (~Active(id) /\ Terminal(id))
    /\ [](qt.pc = "none" => ~page.is_running)

-----------------------------------------------------------------------------
(* enhanced_models.py: Program.optimize *)

MaxOptSteps == 4

\* StepA again with a longer dwell, and with the gripper at another angle
StepASlow == EStep("G01", 0, 0, 0, 20, 1000, 90)

StepAOpen == EStep("G01", 0, 0, 0, 20, 500, 0)

OptStepValues == {StepA, StepASlow, StepAOpen, StepB}

\* mutant: a step is redundant only when it equals the step before it in
\* every field
RECURSIVE optimize_loop_whole_step(_, _, _, _)
optimize_loop_whole_step(steps, n, optimized, prev_step) ==
    IF n > Len(steps)
    THEN optimized
    ELSE LET step == steps[n]
             keep == IF prev_step = None THEN TRUE ELSE step # prev_step[1]
         IN  optimize_loop_whole_step(steps, n + 1,
                 IF keep THEN Append(optimized, step) ELSE optimized, Some(step))

\* the for loop of optimize, from step n on: prev_step is the step of the
\* pass before, kept or not
RECURSIVE optimize_loop(_, _, _, _)
optimize_loop(steps, n, optimized, prev_step) ==
    IF n > Len(steps)
    THEN optimized
    ELSE LET step == steps[n]
             keep == IF prev_step = None
                     THEN TRUE
                     ELSE \/ step.X # prev_step[1].X
                          \/ step.Y # prev_step[1].Y
                          \/ step.Z # prev_step[1].Z
                          \/ step.DO0 # prev_step[1].DO0
         IN  optimize_loop(steps, n + 1,
                 IF keep THEN Append(optimized, step) ELSE optimized, Some(step))

\* Program.optimize
optimize(p, t) ==
    Outcome([p EXCEPT !.steps = optimize_loop(p.steps, 1, <<>>, None),
                      !.modified_at = t], "None")

\* Program(name=..., steps=[...]): the constructor checks nothing
InitOptimize ==
    /\ RunIdle
    /\ ExtraIdle
    /\ DrinkIdle
    /\ AppIdle
    /\ KioskIdle
    /\ ValIdle
    /\ RtIdle
    /\ \E q \in SeqsUpTo(OptStepValues, MaxOptSteps) :
          eprog = EProgram("recipe", "", q, "1.0", 0, 0)
    /\ now = 0
    /\ call = NoCall

\* eprog.optimize()
Optimize ==
    /\ LET r == optimize(eprog, now)
       IN  /\ eprog' = r.prog
           /\ call' = Called("optimize", 0, <<>>, r.ret)
    /\ UNCHANGED now
    /\ UNCHANGED notProg

NextOptimize ==
    \/ Tick
    \/ Optimize

SpecOptimize == InitOptimize /\ [][NextOptimize]_vars

SamePose(a, b) == a.X = b.X /\ a.Y = b.Y /\ a.Z = b.Z /\ a.DO0 = b.DO0

\* the positions optimize is to keep: the first, and each whose step is not
\* at the pose of the step before it
KeptIndexes(steps) ==
    {n \in 1..Len(steps) : n = 1 \/ ~SamePose(steps[n], steps[n - 1])}

\* the steps at the positions K among the first n, in their order
RECURSIVE PickUpTo(_, _, _)
PickUpTo(steps, K, n) ==
    IF n = 0
    THEN <<>>
    ELSE IF n \in K
         THEN Append(PickUpTo(steps, K, n - 1), steps[n])
         ELSE PickUpTo(steps, K, n - 1)

\* C30: optimize leaves the first step and every step that is not at the
\* pose (X, Y, Z, angle) of the step just before it, in their order, and
\* nothing else; optimizing the result again leaves the same steps.
C30_OptimizeDropsRepeats ==
    call.op = "optimize" =>
        LET before == call.before.steps
        IN  /\ eprog.steps = PickUpTo(before, KeptIndexes(before), Len(before))
            /\ before # <<>> => Head(eprog.steps) = Head(before)
            /\ optimize(eprog, now).prog.steps = eprog.steps

\* optimize dropped a step that differs from the step before it in its
\* dwell only, and kept more than the first step
C30_Witness ==
    /\ call.op = "optimize"
    /\ Len(eprog.steps) >= 2
    /\ Len(eprog.steps) < Len(call.before.steps)
    /\ \E n \in 2..Len(call.before.steps) :
          /\ call.before.steps[n] # call.before.steps[n - 1]
          /\ SamePose(call.before.steps[n], call.before.steps[n - 1])


=============================================================================
